---- MODULE Spec2Model ----
(***************************************************************************)
(* Model of the Deep Zoom tile server: the DZI level/address to source     *)
(* region mapping of DeepZoomGenerator (dz_py/deepzoom.py and              *)
(* cucim_py/deepzoom.py) and the slide handle cache of server/main.py.     *)
(***************************************************************************)
EXTENDS Integers, Sequences, FiniteSets, TLC

\* ------------------------------------------------------------------------
\* Bounds of the region-mapper specification
\* ------------------------------------------------------------------------
MaxDim == 8
MaxTileSize == 3
MaxOverlap == 2
MaxAddr == 3
MaxFactor == 4
MaxLevels == 3
MaxDownsample == 8

\* ------------------------------------------------------------------------
\* Bounds of the cache and server specifications
\* ------------------------------------------------------------------------
NumThreads == 2
MaxCalls == 4
MaxFairCalls == 2
MaxRequests == 3
MaxCacheSize == 2

VARIABLES
    dz,       \* the generator under test: _tile_size, _tile_overlap, sizeX, sizeY
    call,     \* the last call made on it and its arguments
    result,   \* what that call returned or raised
    http,     \* the status the tile route answered with (0: no answer yet)
    cache_size, \* _SlideCache.cache_size
    color_mode, \* _SlideCache.color_mode
    cwd,      \* the working directory of the server process
    cache,    \* _SlideCache._cache: the OrderedDict, oldest entry first
    lock,     \* _SlideCache._lock: 0 when free, else the thread holding it
    handles,  \* the slide handle objects alive, by identity (slot number)
    th,       \* per request thread: position, arguments and locals
    recency,  \* history: the cached keys in the order get last accessed them
    ncalls    \* history: the number of calls (requests) started so far

tileVars == <<dz, call, result, http>>
serverVars == <<cache_size, color_mode, cwd, cache, lock, handles, th, recency, ncalls>>

\* ------------------------------------------------------------------------
\* Arithmetic helpers, as Python computes them
\* ------------------------------------------------------------------------
Max(a, b) == IF a >= b THEN a ELSE b

RECURSIVE Pow2(_)
Pow2(k) == IF k <= 0 THEN 1 ELSE 2 * Pow2(k - 1)

\* int(a / b) with b > 0: float division, truncated toward zero
TruncDiv(a, b) == IF a >= 0 THEN a \div b ELSE -((-a) \div b)

\* int(math.ceil(float(a) / b)) with b > 0
CeilDiv(a, b) == -((-a) \div b)

\* int(math.ceil(math.log(n) / math.log(2))): the loop counts the doublings
\* needed to reach n; the float quotient is exact below 2^29
RECURSIVE CeilLog2From(_, _)
CeilLog2From(n, k) == IF Pow2(k) >= n THEN k ELSE CeilLog2From(n, k + 1)

CeilLog2(n) == CeilLog2From(n, 0)

\* maxlevel of get_tile / dzi_level_count
dzi_level_count(sizeX, sizeY) == CeilLog2(Max(sizeX, sizeY))

\* ------------------------------------------------------------------------
\* Region Mapper: _get_region / the body of get_tile
\* ------------------------------------------------------------------------
NoRegion(err) ==
    [err |-> err, left |-> 0, top |-> 0, right |-> 0, bottom |-> 0,
     width |-> 0, height |-> 0]

\* ">" where the code has ">=" lets a tile that starts on the edge through
OutsideMutant(origin, size) == origin > size

\* if region["left"] >= sizeX: raise ValueError (same test for top / sizeY)
Outside(origin, size) == origin >= size

\* the far edge is never clamped
ClampFarMutant(near, far, size) == far

\* region["right"] = sizeX when the rectangle crosses the edge
ClampFar(near, far, size) == IF near < size /\ far > size THEN size ELSE far

\* the clipped size keeps the full tile size
ClipSizeMutant(near, far, size, lfactor, sz) == sz

\* width = ceil((right - left) / lfactor) when the rectangle crosses the edge
ClipSize(near, far, size, lfactor, sz) ==
    IF near < size /\ far > size THEN CeilDiv(size - near, lfactor) ELSE sz

get_region(x, y, lfactor, tile_size, overlap, sizeX, sizeY) ==
    LET left0   == (x * tile_size - overlap) * lfactor
        top0    == (y * tile_size - overlap) * lfactor
        right0  == ((x + 1) * tile_size + overlap) * lfactor
        bottom0 == ((y + 1) * tile_size + overlap) * lfactor
        wh0     == tile_size + overlap * 2
        width1  == IF left0 < 0 THEN wh0 + TruncDiv(left0, lfactor) ELSE wh0
        left1   == IF left0 < 0 THEN 0 ELSE left0
        height1 == IF top0 < 0 THEN wh0 + TruncDiv(top0, lfactor) ELSE wh0
        top1    == IF top0 < 0 THEN 0 ELSE top0
    IN  IF Outside(left1, sizeX) THEN NoRegion("x is outside layer")
        ELSE IF Outside(top1, sizeY) THEN NoRegion("y is outside layer")
        ELSE [err    |-> "none",
              left   |-> left1,
              top    |-> top1,
              right  |-> ClampFar(left1, right0, sizeX),
              bottom |-> ClampFar(top1, bottom0, sizeY),
              width  |-> ClipSize(left1, right0, sizeX, lfactor, width1),
              height |-> ClipSize(top1, bottom0, sizeY, lfactor, height1)]

\* level 0 is let through
LevelInvalidMutant(level, maxlevel) == level < 0 \/ level > maxlevel

\* if level < 1 or level > maxlevel: raise ValueError
LevelInvalid(level, maxlevel) == level < 1 \/ level > maxlevel

get_tile(level, x, y, tile_size, overlap, sizeX, sizeY) ==
    LET maxlevel == dzi_level_count(sizeX, sizeY)
    IN  IF LevelInvalid(level, maxlevel)
        THEN NoRegion("level must be between 1 and the image scale")
        ELSE get_region(x, y, Pow2(maxlevel - level),
                        tile_size, overlap, sizeX, sizeY)

\* the format_ path parameter of the tile route
Formats == {"jpeg", "JPEG", "png"}

\* format_.lower()
Lower(f) == IF f = "JPEG" THEN "jpeg" ELSE f

\* the tile route after the slide lookup: 404 for a format other than jpeg
\* and for a ValueError of get_tile, else the encoded tile
TileResponse(format, level, col, row, tile_size, overlap, sizeX, sizeY) ==
    IF Lower(format) # "jpeg" THEN 404
    ELSE IF get_tile(level, col, row, tile_size, overlap, sizeX, sizeY).err # "none"
         THEN 404
         ELSE 200

\* ------------------------------------------------------------------------
\* The file system the server runs on (paths are sequences of parts)
\* ------------------------------------------------------------------------
Threads == 1..NumThreads

\* app.slidedir
slidedir == <<"srv">>

\* slides under the slide directory; "a" carries one associated image
FileA == <<"srv", "a">>
FileC == <<"srv", "c">>
FileD == <<"srv", "d">>
\* a file under the slide directory the Image Source cannot read
FileB == <<"srv", "b">>
\* a readable slide outside the slide directory
FileX == <<"x">>

ExistingFiles == {FileA, FileB, FileC, FileD, FileX}
ReadableFiles == {FileA, FileC, FileD, FileX}

\* the directories the process may have been started in
WorkingDirs == {slidedir, <<"home">>}

\* the paths requests name: a slide, an unreadable file, a path that
\* climbs out of the slide directory, the pseudo-slide of a's thumbnail
UserPaths == {<<"a">>, <<"b">>, <<"..", "x">>, <<"a_thumb">>}

\* Path.resolve: ".." drops the part before it
RECURSIVE Normalize(_, _)
Normalize(done, rest) ==
    IF rest = <<>> THEN done
    ELSE IF Head(rest) = ".."
         THEN Normalize(IF done = <<>> THEN <<>>
                        ELSE SubSeq(done, 1, Len(done) - 1), Tail(rest))
         ELSE Normalize(Append(done, Head(rest)), Tail(rest))

\* (base / user_path).resolve()
Resolve(base, user_path) == Normalize(base, user_path)

\* path.parts[: len(app.slidedir.parts)] != app.slidedir.parts
IsTraversal(path) ==
    SubSeq(path, 1, IF Len(path) < Len(slidedir) THEN Len(path)
                    ELSE Len(slidedir)) # slidedir

\* slide.associated_images: the names of the slide's associated images
associated_images(file) == IF file = FileA THEN {"thumb"} ELSE {}

\* f"{path}_{name}"
ImagePath(user_path, name) ==
    [user_path EXCEPT ![Len(user_path)] = @ \o "_" \o name]

\* path.name
PathName(path) == path[Len(path)]

\* cache keys: a str (the raw request path) or a resolved Path
StrKey(user_path) == [kind |-> "str", v |-> user_path]
PathKey(path) == [kind |-> "path", v |-> path]
NoKey == [kind |-> "none", v |-> <<>>]

\* the file large_image.getTileSource opens for a key: a str is taken
\* relative to the working directory, a Path is already absolute
OpenTarget(k, dir) == IF k.kind = "str" THEN Resolve(dir, k.v) ELSE k.v

\* sizeX / sizeY of the slides the server serves, and the configured dz_opts
SlideMeta == [sizeX |-> 5, sizeY |-> 3]
dz_opts == [tile_size |-> 2, overlap |-> 1]

\* ColorMode: one mode that converts to sRGB, one that builds no transform
ColorModes == {"default", "ignore"}

\* what settings.config["DEEPZOOM_COLOR_MODE"] can hold when create_app
\* builds the cache: the value is passed on as it is
ConfiguredModes == ColorModes \cup {"vivid"}

\* slide.get_icc_profile: the slides that carry an embedded color profile
get_icc_profile(file) == IF file \in {FileA, FileC} THEN "icc" ELSE "None"

\* _SlideCache._get_transform
get_transform(color_profile, mode) ==
    IF color_profile = "None" THEN "noop"
    ELSE IF mode = "ignore" THEN "drop_profile"
    ELSE IF mode = "default" THEN "to_srgb"
    ELSE "ValueError"

\* lines 89-106 complete: the Image Source reads the file and the transform
\* is resolved
Builds(file, mode) ==
    /\ file \in ReadableFiles
    /\ get_transform(get_icc_profile(file), mode) # "ValueError"

\* ------------------------------------------------------------------------
\* _SlideCache: the OrderedDict operations get uses
\* ------------------------------------------------------------------------
Keys(c) == {c[i].key : i \in 1..Len(c)}

\* path in self._cache
HasKey(c, k) == k \in Keys(c)

\* self._cache[path]
Lookup(c, k) == (CHOOSE i \in 1..Len(c) : c[i].key = k)

Without(c, k) == SelectSeq(c, LAMBDA e : e.key # k)

\* a hit that leaves the entry where it is
MoveToEndMutant(c, k) == c

\* a hit that pops the entry and does not put it back
MoveToEndDrops(c, k) == Without(c, k)

\* slide = self._cache.pop(path); self._cache[path] = slide
MoveToEnd(c, k) == Append(Without(c, k), c[Lookup(c, k)])

\* self._cache.popitem(last=False)
PopOldest(c) == Tail(c)

\* ">" lets the cache grow one past its size
CacheFullMutant(c, size) == Len(c) > size

\* len(self._cache) == self.cache_size
CacheFull(c, size) == Len(c) = size

\* lines 109-112: insert unless the path is cached, evicting when full
InsertIfAbsent(c, k, h, size) ==
    IF HasKey(c, k) THEN c
    ELSE Append(IF CacheFull(c, size) THEN PopOldest(c) ELSE c,
                [key |-> k, h |-> h])

\* app.cache._cache[image_path] = ...: plain item assignment, which keeps
\* the position of a key already there and never evicts
SetItem(c, k, h) ==
    IF HasKey(c, k) THEN [c EXCEPT ![Lookup(c, k)].h = h]
    ELSE Append(c, [key |-> k, h |-> h])

\* history of accesses: the keys still cached, least recently accessed first
Accessed(r, c, k) ==
    LET kept == SelectSeq(r, LAMBDA x : x \in Keys(c) /\ x # k)
    IN  IF k \in Keys(c) THEN Append(kept, k) ELSE kept

\* ------------------------------------------------------------------------
\* Request threads
\* ------------------------------------------------------------------------
Idle == [pc |-> "idle", route |-> "none", upath |-> <<>>, stage |-> "none",
         key |-> NoKey, slide |-> 0, ret |-> 0, outcome |-> "none",
         todo |-> {}, resp |-> 0]

NewHandle(file, cls) ==
    [file |-> file, cls |-> cls, filename |-> "", annotated |-> cls = "dz"]

\* the slot of a handle object that has been reclaimed
Freed == [file |-> <<>>, cls |-> "freed", filename |-> "", annotated |-> FALSE]

\* the handles something still refers to: the values of _cache and the
\* locals slide of the running calls
Live(c, thr) ==
    {c[i].h : i \in 1..Len(c)}
        \cup {thr[t].slide : t \in Threads} \cup {thr[t].ret : t \in Threads}

\* a handle dropped by popitem, by item assignment or by a returning call
\* is reclaimed once nothing refers to it (reference counting)
Collect(hs, c, thr) ==
    LET kept == [i \in 1..Len(hs) |->
                    IF i \in Live(c, thr) THEN hs[i] ELSE Freed]
        used == {i \in 1..Len(hs) : kept[i] # Freed}
        n == IF used = {} THEN 0
             ELSE CHOOSE i \in used : \A j \in used : j <= i
    IN  SubSeq(kept, 1, n)

\* the identity a newly built handle gets: the first slot not in use
FreeSlot(hs) ==
    LET free == {i \in 1..Len(hs) : hs[i] = Freed}
    IN  IF free = {} THEN Len(hs) + 1
        ELSE CHOOSE i \in free : \A j \in free : i <= j

\* DeepZoomGenerator(...): a new handle object
Alloc(hs, h) ==
    IF FreeSlot(hs) > Len(hs) THEN Append(hs, h)
    ELSE [hs EXCEPT ![FreeSlot(hs)] = h]

\* with self._lock: (either of the two with statements of get)
Acquire(t) ==
    /\ th[t].pc \in {"lock1", "lock2"}
    /\ lock = 0
    /\ lock' = t
    /\ th' = [th EXCEPT ![t].pc = IF th[t].pc = "lock1" THEN "in1" ELSE "in2"]
    /\ UNCHANGED <<cache_size, color_mode, cwd, cache, handles, recency, ncalls>>

\* a hit that returns without leaving the with block
HitKeepsLock(t) ==
    /\ th[t].pc = "in1"
    /\ HasKey(cache, th[t].key)
    /\ cache' = MoveToEnd(cache, th[t].key)
    /\ th' = [th EXCEPT ![t].pc = "got", ![t].outcome = "hit",
                        ![t].ret = cache[Lookup(cache, th[t].key)].h]
    /\ lock' = lock
    /\ recency' = Accessed(recency, cache', th[t].key)
    /\ UNCHANGED <<cache_size, color_mode, cwd, handles, ncalls>>

\* lines 83-87: a hit moves the entry to the end and returns it
Hit(t) ==
    /\ th[t].pc = "in1"
    /\ HasKey(cache, th[t].key)
    /\ cache' = MoveToEnd(cache, th[t].key)
    /\ th' = [th EXCEPT ![t].pc = "got", ![t].outcome = "hit",
                        ![t].ret = cache[Lookup(cache, th[t].key)].h]
    /\ lock' = 0
    /\ recency' = Accessed(recency, cache', th[t].key)
    /\ UNCHANGED <<cache_size, color_mode, cwd, handles, ncalls>>

\* a miss that reserves the key in the cache before the slide is opened
MissReserves(t) ==
    /\ th[t].pc = "in1"
    /\ ~HasKey(cache, th[t].key)
    /\ cache' = Append(cache, [key |-> th[t].key, h |-> 0])
    /\ th' = [th EXCEPT ![t].pc = "open"]
    /\ lock' = 0
    /\ UNCHANGED <<cache_size, color_mode, cwd, handles, recency, ncalls>>

\* line 83 false: leave the with block and go on to build the slide
Miss(t) ==
    /\ th[t].pc = "in1"
    /\ ~HasKey(cache, th[t].key)
    /\ th' = [th EXCEPT ![t].pc = "open"]
    /\ lock' = 0
    /\ UNCHANGED <<cache_size, color_mode, cwd, cache, handles, recency, ncalls>>

\* lines 89-106: the slide is opened, its metadata read, mpp and transform
\* attached, all outside the lock
OpenOk(t) ==
    /\ th[t].pc = "open"
    /\ Builds(OpenTarget(th[t].key, cwd), color_mode)
    /\ handles' = Alloc(handles, NewHandle(OpenTarget(th[t].key, cwd), "dz"))
    /\ th' = [th EXCEPT ![t].pc = "lock2", ![t].slide = FreeSlot(handles)]
    /\ UNCHANGED <<cache_size, color_mode, cwd, cache, lock, recency, ncalls>>

\* lines 89-106 raise: the file is missing, the Image Source rejects it or
\* _get_transform meets a mode it does not know (line 138)
OpenFail(t) ==
    /\ th[t].pc = "open"
    /\ ~Builds(OpenTarget(th[t].key, cwd), color_mode)
    /\ th' = [th EXCEPT ![t].pc = "raised",
                        ![t].outcome =
                            IF OpenTarget(th[t].key, cwd) \in ReadableFiles
                            THEN "Unknown color mode" ELSE "failed"]
    /\ UNCHANGED <<cache_size, color_mode, cwd, cache, lock, handles, recency, ncalls>>

\* lines 108-113: insert unless a concurrent call did; return the slide built
Insert(t) ==
    /\ th[t].pc = "in2"
    /\ cache' = InsertIfAbsent(cache, th[t].key, th[t].slide, cache_size)
    /\ th' = [th EXCEPT ![t].pc = "got", ![t].ret = th[t].slide,
                        ![t].outcome = IF HasKey(cache, th[t].key)
                                       THEN "discarded" ELSE "inserted"]
    /\ lock' = 0
    /\ recency' = IF HasKey(cache, th[t].key) THEN recency
                  ELSE Accessed(recency, cache', th[t].key)
    /\ handles' = Collect(handles, cache', th')
    /\ UNCHANGED <<cache_size, color_mode, cwd, ncalls>>

\* a call is served by the first free worker thread (idle workers are
\* interchangeable)
FirstFree(t) ==
    /\ th[t].pc = "idle"
    /\ \A u \in Threads : u < t => th[u].pc # "idle"

\* the keys direct callers of get pass
GetKeys == {PathKey(FileA), PathKey(FileB), PathKey(FileC), PathKey(FileD)}

\* a caller invokes app.cache.get(path)
CallGet(t) ==
    \E k \in GetKeys :
        /\ FirstFree(t)
        /\ ncalls < MaxCalls
        /\ ncalls' = ncalls + 1
        /\ th' = [th EXCEPT ![t] = [Idle EXCEPT !.pc = "lock1",
                                                !.route = "get", !.key = k]]
        /\ UNCHANGED <<cache_size, color_mode, cwd, cache, lock, handles, recency>>

\* the caller is done with what get returned or raised
FinishGet(t) ==
    /\ th[t].route = "get"
    /\ th[t].pc \in {"got", "raised"}
    /\ th' = [th EXCEPT ![t] = Idle]
    /\ handles' = Collect(handles, cache, th')
    /\ UNCHANGED <<cache_size, color_mode, cwd, cache, lock, recency, ncalls>>

\* ------------------------------------------------------------------------
\* The routes of create_app
\* ------------------------------------------------------------------------
Routes == {"dzi", "tile", "slide"}

\* a request arrives: dzi and tile start with app.cache.get(path) on the raw
\* str (lines 264, 278), the viewer page with get_slide (line 303)
Request(t) ==
    \E r \in Routes, u \in UserPaths :
        /\ FirstFree(t)
        /\ ncalls < MaxRequests
        /\ ncalls' = ncalls + 1
        /\ th' = [th EXCEPT ![t] =
                     IF r = "slide"
                     THEN [Idle EXCEPT !.pc = "get_slide", !.route = r,
                                       !.upath = u]
                     ELSE [Idle EXCEPT !.pc = "lock1", !.route = r,
                                       !.upath = u, !.stage = "raw",
                                       !.key = StrKey(u)]]
        /\ UNCHANGED <<cache_size, color_mode, cwd, cache, lock, handles, recency>>

\* except Exception: slide = get_slide(PurePath(path))  (lines 265-266, 279-280)
RawRaised(t) ==
    /\ th[t].stage = "raw"
    /\ th[t].pc = "raised"
    /\ th' = [th EXCEPT ![t].pc = "get_slide"]
    /\ UNCHANGED <<cache_size, color_mode, cwd, cache, lock, handles, recency, ncalls>>

\* get_slide, lines 237-246: resolve, refuse what is missing or outside the
\* slide directory, else call app.cache.get with the resolved Path
GetSlideResolve(t) ==
    /\ th[t].pc = "get_slide"
    /\ LET path == Resolve(slidedir, th[t].upath)
       IN  th' = [th EXCEPT ![t] =
                     IF path \notin ExistingFiles \/ IsTraversal(path)
                     THEN [@ EXCEPT !.pc = "done", !.resp = 404]
                     ELSE [@ EXCEPT !.pc = "lock1", !.stage = "resolved",
                                    !.key = PathKey(path)]]
    /\ UNCHANGED <<cache_size, color_mode, cwd, cache, lock, handles, recency, ncalls>>

\* get_slide, lines 249-250: any exception of get becomes a 404
GetSlideRaised(t) ==
    /\ th[t].stage = "resolved"
    /\ th[t].pc = "raised"
    /\ th' = [th EXCEPT ![t].pc = "done", ![t].resp = 404]
    /\ UNCHANGED <<cache_size, color_mode, cwd, cache, lock, handles, recency, ncalls>>

\* get_slide, lines 247-248: slide.filename = path.name; return slide
GetSlideReturn(t) ==
    /\ th[t].stage = "resolved"
    /\ th[t].pc = "got"
    /\ handles' = [handles EXCEPT
                      ![th[t].ret].filename = PathName(th[t].key.v)]
    /\ th' = [th EXCEPT ![t] =
                 IF th[t].route = "slide"
                 THEN [@ EXCEPT !.pc = "assoc",
                          !.todo = associated_images(handles[th[t].ret].file)]
                 ELSE [@ EXCEPT !.pc = "respond"]]
    /\ UNCHANGED <<cache_size, color_mode, cwd, cache, lock, recency, ncalls>>

\* the route holds its slide: from the raw lookup or from get_slide
HasSlide(t) ==
    \/ th[t].pc = "respond"
    \/ th[t].stage = "raw" /\ th[t].pc = "got"

\* dzi, lines 267-269
DziRespond(t) ==
    /\ th[t].route = "dzi"
    /\ HasSlide(t)
    /\ th' = [th EXCEPT ![t].pc = "done", ![t].resp = 200]
    /\ UNCHANGED <<cache_size, color_mode, cwd, cache, lock, handles, recency, ncalls>>

\* tile, lines 281-298. A pseudo-slide is an openslide generator whose own
\* get_tile decides between a tile and ValueError; slide.transform is an
\* AttributeError (500) on a handle that has not got its transform yet.
TileRespond(t) ==
    \E format \in {"jpeg", "png"}, level \in 0..1, col \in {0, MaxAddr},
       osd_ok \in BOOLEAN :
        /\ th[t].route = "tile"
        /\ HasSlide(t)
        /\ LET h == handles[th[t].ret]
               st == IF h.cls = "dz"
                     THEN TileResponse(format, level, col, 0,
                                       dz_opts.tile_size, dz_opts.overlap,
                                       SlideMeta.sizeX, SlideMeta.sizeY)
                     ELSE IF Lower(format) = "jpeg" /\ osd_ok THEN 200
                          ELSE 404
           IN  th' = [th EXCEPT ![t].pc = "done",
                         ![t].resp = IF st = 200 /\ ~h.annotated THEN 500
                                     ELSE st]
        /\ UNCHANGED <<cache_size, color_mode, cwd, cache, lock, handles, recency, ncalls>>

\* slide, lines 305-310: the pseudo-slide of an associated image is written
\* straight into app.cache._cache, without the lock and without eviction
AssocInsert(t) ==
    \E name \in th[t].todo :
        /\ th[t].pc = "assoc"
        /\ LET k == StrKey(ImagePath(th[t].upath, name))
           IN  /\ cache' = SetItem(cache, k, FreeSlot(handles))
               /\ recency' = IF HasKey(cache, k) THEN recency
                             ELSE Append(recency, k)
               /\ th' = [th EXCEPT ![t].pc = "assoc_attrs", ![t].key = k]
               /\ handles' =
                      Collect(Alloc(handles,
                                    NewHandle(handles[th[t].ret].file, "osd")),
                              cache', th')
        /\ UNCHANGED <<cache_size, color_mode, cwd, lock, ncalls>>

\* slide, lines 311-313: filename, mpp and transform are set on whatever
\* app.cache._cache[image_path] holds now; a KeyError is a 500
AssocAnnotate(t) ==
    \E name \in th[t].todo :
        /\ th[t].pc = "assoc_attrs"
        /\ th[t].key = StrKey(ImagePath(th[t].upath, name))
        /\ IF HasKey(cache, th[t].key)
           THEN /\ handles' = [handles EXCEPT
                                  ![cache[Lookup(cache, th[t].key)].h] =
                                      [@ EXCEPT !.filename = name,
                                                !.annotated = TRUE]]
                /\ th' = [th EXCEPT ![t].pc = "assoc",
                                    ![t].todo = th[t].todo \ {name}]
           ELSE /\ handles' = handles
                /\ th' = [th EXCEPT ![t].pc = "done", ![t].resp = 500]
        /\ UNCHANGED <<cache_size, color_mode, cwd, cache, lock, recency, ncalls>>

\* slide, lines 314-330: the page is rendered
SlideRespond(t) ==
    /\ th[t].pc = "assoc"
    /\ th[t].todo = {}
    /\ th' = [th EXCEPT ![t].pc = "done", ![t].resp = 200]
    /\ UNCHANGED <<cache_size, color_mode, cwd, cache, lock, handles, recency, ncalls>>

\* the response has been sent
FinishRequest(t) ==
    /\ th[t].pc = "done"
    /\ th' = [th EXCEPT ![t] = Idle]
    /\ handles' = Collect(handles, cache, th')
    /\ UNCHANGED <<cache_size, color_mode, cwd, cache, lock, recency, ncalls>>

\* ------------------------------------------------------------------------
\* Specification of the region mapper: one generator, any call on it
\* ------------------------------------------------------------------------
NoCall == [op |-> "none", level |-> 0, x |-> 0, y |-> 0, lfactor |-> 0,
           format |-> "jpeg"]

TileIdle ==
    /\ dz = [tile_size |-> dz_opts.tile_size, overlap |-> dz_opts.overlap,
             sizeX |-> SlideMeta.sizeX, sizeY |-> SlideMeta.sizeY]
    /\ call = NoCall
    /\ result = NoRegion("none")
    /\ http = 0

ServerIdle ==
    /\ cache_size = 1
    /\ color_mode = "default"
    /\ cwd = slidedir
    /\ cache = <<>>
    /\ lock = 0
    /\ handles = <<>>
    /\ th = [t \in Threads |-> Idle]
    /\ recency = <<>>
    /\ ncalls = 0

InitTile ==
    /\ ServerIdle
    /\ dz \in [tile_size : 1..MaxTileSize, overlap : 0..MaxOverlap,
               sizeX : 1..MaxDim, sizeY : 1..MaxDim]
    /\ call = NoCall
    /\ result = NoRegion("none")
    /\ http = 0

RegionCall ==
    \E x \in 0..MaxAddr, y \in 0..MaxAddr, f \in 1..MaxFactor :
        /\ call.op = "none"
        /\ call' = [NoCall EXCEPT !.op = "_get_region", !.x = x, !.y = y,
                                  !.lfactor = f]
        /\ result' = get_region(x, y, f, dz.tile_size, dz.overlap,
                                dz.sizeX, dz.sizeY)
        /\ http' = 0
        /\ UNCHANGED <<dz, serverVars>>

TileCall ==
    \E level \in 0..(dzi_level_count(dz.sizeX, dz.sizeY) + 1),
       x \in 0..MaxAddr, y \in 0..MaxAddr :
        /\ call.op = "none"
        /\ call' = [NoCall EXCEPT !.op = "get_tile", !.level = level,
                                  !.x = x, !.y = y]
        /\ result' = get_tile(level, x, y, dz.tile_size, dz.overlap,
                              dz.sizeX, dz.sizeY)
        /\ http' = 0
        /\ UNCHANGED <<dz, serverVars>>

TileRouteCall ==
    \E level \in 0..(dzi_level_count(dz.sizeX, dz.sizeY) + 1),
       x \in 0..MaxAddr, y \in 0..MaxAddr, format \in Formats :
        /\ call.op = "none"
        /\ call' = [NoCall EXCEPT !.op = "tile", !.level = level,
                                  !.x = x, !.y = y, !.format = format]
        /\ result' = IF Lower(format) # "jpeg" THEN NoRegion("format")
                     ELSE get_tile(level, x, y, dz.tile_size, dz.overlap,
                                   dz.sizeX, dz.sizeY)
        /\ http' = TileResponse(format, level, x, y, dz.tile_size,
                                dz.overlap, dz.sizeX, dz.sizeY)
        /\ UNCHANGED <<dz, serverVars>>

\* the call has returned; the generator is unchanged and takes the next one
TileReturn ==
    /\ call.op # "none"
    /\ call' = NoCall
    /\ result' = NoRegion("none")
    /\ http' = 0
    /\ UNCHANGED <<dz, serverVars>>

NextTile == RegionCall \/ TileCall \/ TileRouteCall \/ TileReturn

vars == <<tileVars, serverVars>>

SpecTile == InitTile /\ [][NextTile]_vars

\* ------------------------------------------------------------------------
\* Specification of the Level Selector: one list of native downsamples,
\* any sequence of best_level_for_downsample calls on it
\* ------------------------------------------------------------------------
\* "<=" would select a level whose downsample equals the target
BelowMutant(d, downsample) == d <= downsample

\* if d < downsample:
Below(d, downsample) == d < downsample

\* the first downsample below the target is kept instead of the last
KeepMutant(max_downsample, d) == IF max_downsample = 0 THEN d ELSE max_downsample

\* max_downsample = d
Keep(max_downsample, d) == d

\* max_downsample = 0; for d in self.level_downsamples: ...
RECURSIVE ScanDownsamples(_, _, _, _)
ScanDownsamples(levels, downsample, i, max_downsample) ==
    IF i > Len(levels) THEN max_downsample
    ELSE ScanDownsamples(levels, downsample, i + 1,
                         IF Below(levels[i], downsample)
                         THEN Keep(max_downsample, levels[i])
                         ELSE max_downsample)

\* the fallback answers with the coarsest level
UnresolvedMutant(levels) == Len(levels) - 1

\* except Exception: ... return 0
Unresolved(levels) == 0

\* self.level_downsamples.index(max_downsample): the first position, from 0
IndexOf(levels, v) ==
    LET at == {i \in 1..Len(levels) : levels[i] = v}
    IN  IF at = {} THEN Unresolved(levels)
        ELSE (CHOOSE i \in at : \A j \in at : i <= j) - 1

best_level_for_downsample(levels, downsample) ==
    IndexOf(levels, ScanDownsamples(levels, downsample, 1, 0))

\* the lists of native downsamples an Image Source reports: level 0 has
\* downsample 1 and the list is sorted ascending
LevelLists ==
    {l \in UNION {[1..n -> 1..MaxDownsample] : n \in 1..MaxLevels} :
        /\ l[1] = 1
        /\ \A i \in 1..(Len(l) - 1) : l[i] <= l[i + 1]}

\* no call in progress; before: the target of the call that returned last
\* (-1: none yet)
LevelIdle(before) == [op |-> "none", downsample |-> 0, before |-> before]

InitLevel ==
    /\ ServerIdle
    /\ dz \in [level_downsamples : LevelLists]
    /\ call = LevelIdle(-1)
    /\ result = [level |-> 0, err |-> "none", before |-> 0]
    /\ http = 0

LevelCall ==
    \E downsample \in 0..(MaxDownsample + 1) :
        /\ call.op = "none"
        /\ call' = [call EXCEPT !.op = "best_level_for_downsample",
                                !.downsample = downsample]
        /\ result' = [result EXCEPT
                         !.level = best_level_for_downsample(
                                       dz.level_downsamples, downsample)]
        /\ UNCHANGED <<dz, http, serverVars>>

\* the call has returned; its target and answer are remembered
LevelReturn ==
    /\ call.op # "none"
    /\ call' = LevelIdle(call.downsample)
    /\ result' = [level |-> 0, err |-> "none", before |-> result.level]
    /\ UNCHANGED <<dz, http, serverVars>>

NextLevel == LevelCall \/ LevelReturn

SpecLevel == InitLevel /\ [][NextLevel]_vars

\* ------------------------------------------------------------------------
\* Specification of the cache alone: threads that call get, nothing else
\* ------------------------------------------------------------------------
InitServer ==
    /\ TileIdle
    /\ cache_size \in 1..MaxCacheSize
    /\ color_mode \in ConfiguredModes
    /\ cwd \in WorkingDirs
    /\ cache = <<>>
    /\ lock = 0
    /\ handles = <<>>
    /\ th = [t \in Threads |-> Idle]
    /\ recency = <<>>
    /\ ncalls = 0

InitCache == InitServer /\ cwd = slidedir /\ color_mode = "default"

NextCache ==
    \E t \in Threads :
        \/ CallGet(t) /\ UNCHANGED tileVars
        \/ Acquire(t) /\ UNCHANGED tileVars
        \/ Hit(t) /\ UNCHANGED tileVars
        \/ Miss(t) /\ UNCHANGED tileVars
        \/ OpenOk(t) /\ UNCHANGED tileVars
        \/ OpenFail(t) /\ UNCHANGED tileVars
        \/ Insert(t) /\ UNCHANGED tileVars
        \/ FinishGet(t) /\ UNCHANGED tileVars

SpecCache == InitCache /\ [][NextCache]_vars

\* threading.Lock.acquire: a thread that is waiting for the lock
LockStep(t) == Acquire(t) /\ UNCHANGED tileVars

\* the steps of get a thread takes by itself; every open returns or raises
RunStep(t) ==
    (Hit(t) \/ Miss(t) \/ OpenOk(t) \/ OpenFail(t) \/ Insert(t))
        /\ UNCHANGED tileVars

\* a fair scheduler: a running thread goes on, and a thread waiting for a
\* lock that is released again and again gets it
FairCache ==
    \A t \in Threads : WF_vars(RunStep(t)) /\ SF_vars(LockStep(t))

\* the callers of the runs checked for termination: fewer calls, since
\* every behaviour is followed to its end
FairCallGet(t) == ncalls < MaxFairCalls /\ CallGet(t)

NextCacheFair ==
    \E t \in Threads :
        \/ FairCallGet(t) /\ UNCHANGED tileVars
        \/ Acquire(t) /\ UNCHANGED tileVars
        \/ Hit(t) /\ UNCHANGED tileVars
        \/ Miss(t) /\ UNCHANGED tileVars
        \/ OpenOk(t) /\ UNCHANGED tileVars
        \/ OpenFail(t) /\ UNCHANGED tileVars
        \/ Insert(t) /\ UNCHANGED tileVars
        \/ FinishGet(t) /\ UNCHANGED tileVars

SpecCacheFair == InitCache /\ [][NextCacheFair]_vars /\ FairCache

\* ------------------------------------------------------------------------
\* Specification of the server: request threads running the routes
\* ------------------------------------------------------------------------
Init == InitServer

Next ==
    \E t \in Threads :
        \/ Request(t) /\ UNCHANGED tileVars
        \/ Acquire(t) /\ UNCHANGED tileVars
        \/ Hit(t) /\ UNCHANGED tileVars
        \/ Miss(t) /\ UNCHANGED tileVars
        \/ OpenOk(t) /\ UNCHANGED tileVars
        \/ OpenFail(t) /\ UNCHANGED tileVars
        \/ Insert(t) /\ UNCHANGED tileVars
        \/ RawRaised(t) /\ UNCHANGED tileVars
        \/ GetSlideResolve(t) /\ UNCHANGED tileVars
        \/ GetSlideRaised(t) /\ UNCHANGED tileVars
        \/ GetSlideReturn(t) /\ UNCHANGED tileVars
        \/ DziRespond(t) /\ UNCHANGED tileVars
        \/ TileRespond(t) /\ UNCHANGED tileVars
        \/ AssocInsert(t) /\ UNCHANGED tileVars
        \/ AssocAnnotate(t) /\ UNCHANGED tileVars
        \/ SlideRespond(t) /\ UNCHANGED tileVars
        \/ FinishRequest(t) /\ UNCHANGED tileVars

Spec == Init /\ [][Next]_vars


\* ------------------------------------------------------------------------
\* Claims about the region mapper (checked under SpecTile)
\* ------------------------------------------------------------------------
Returned == call.op \in {"_get_region", "get_tile"} /\ result.err = "none"

\* the level factor the call used
Factor ==
    IF call.op = "_get_region" THEN call.lfactor
    ELSE Pow2(dzi_level_count(dz.sizeX, dz.sizeY) - call.level)

RawLeft   == (call.x * dz.tile_size - dz.overlap) * Factor
RawTop    == (call.y * dz.tile_size - dz.overlap) * Factor
RawRight  == ((call.x + 1) * dz.tile_size + dz.overlap) * Factor
RawBottom == ((call.y + 1) * dz.tile_size + dz.overlap) * Factor
FullSize  == dz.tile_size + 2 * dz.overlap

\* the least n with n * f >= a, for a >= 0 and f >= 1
Ceiling(a, f) == CHOOSE n \in 0..a : n * f >= a /\ (n = 0 \/ (n - 1) * f < a)

\* C7: whenever the Region Mapper returns a region (tile_size > 0,
\* overlap >= 0, level_factor >= 1, col and row >= 0), the region satisfies
\* 0 <= left < right <= native_width and 0 <= top < bottom <= native_height
\* and the returned width and height are >= 1.
C7_RegionInsideImage ==
    Returned =>
        /\ 0 <= result.left /\ result.left < result.right
        /\ result.right <= dz.sizeX
        /\ 0 <= result.top /\ result.top < result.bottom
        /\ result.bottom <= dz.sizeY
        /\ result.width >= 1 /\ result.height >= 1

\* a region clipped on the left and on the right edge, and on the bottom edge
C7_Witness ==
    /\ Returned
    /\ RawLeft < 0 /\ RawRight > dz.sizeX /\ result.right = dz.sizeX
    /\ RawBottom > dz.sizeY /\ result.bottom = dz.sizeY
    /\ Factor > 1

\* C8 as stated: a tile inside the image is tile_size + 2*overlap wide and
\* high, except where its raw rectangle reaches past the right or bottom
\* edge; there the dimension is strictly smaller than tile_size + 2*overlap
\* and equals ceil((native_edge - left_or_top) / level_factor).
C8_Original ==
    (call.op = "get_tile" /\ result.err = "none") =>
        /\ IF RawRight > dz.sizeX
           THEN /\ result.width < FullSize
                /\ result.width = Ceiling(dz.sizeX - result.left, Factor)
           ELSE result.width = FullSize
        /\ IF RawBottom > dz.sizeY
           THEN /\ result.height < FullSize
                /\ result.height = Ceiling(dz.sizeY - result.top, Factor)
           ELSE result.height = FullSize

\* what the dimension along one axis is: clipped at the far edge it is
\* ceil((edge - clamped origin) / factor), at most the full size; else, with
\* a negative raw origin, the full size less the part left of the image;
\* else the full size
DimensionAsCoded(dim, origin, rawNear, rawFar, edge, addr) ==
    IF rawFar > edge
    THEN dim = Ceiling(edge - origin, Factor) /\ dim <= FullSize
    ELSE IF rawNear < 0
         THEN /\ dim = FullSize - (dz.overlap - addr * dz.tile_size)
              /\ dim < FullSize
         ELSE dim = FullSize

\* C8 (amended): a tile inside the image is tile_size + 2*overlap wide and
\* high, except (a) where its raw rectangle reaches past the right or bottom
\* edge: there the dimension equals ceil((native_edge - left_or_top) /
\* level_factor) and is at most (not always strictly less than)
\* tile_size + 2*overlap; and (b) where the raw rectangle starts left of or
\* above the image without reaching past the far edge: there the dimension
\* is tile_size + 2*overlap less the overhang overlap - col*tile_size.
C8_TileDimensions ==
    (call.op = "get_tile" /\ result.err = "none") =>
        /\ DimensionAsCoded(result.width, result.left, RawLeft, RawRight,
                            dz.sizeX, call.x)
        /\ DimensionAsCoded(result.height, result.top, RawTop, RawBottom,
                            dz.sizeY, call.y)

\* a tile clipped at the right edge at a level below full resolution
C8_Witness ==
    /\ call.op = "get_tile" /\ result.err = "none"
    /\ Factor > 1
    /\ RawRight > dz.sizeX /\ RawLeft > 0
    /\ result.width < FullSize
    /\ result.height = FullSize

\* C9: the Region Mapper fails with the x error exactly when
\* max(0, (col*tile_size - overlap)*level_factor) >= native_width, with the
\* y error exactly when the x test passes and
\* max(0, (row*tile_size - overlap)*level_factor) >= native_height, and
\* returns a region whenever both clamped origins lie inside the image.
C9_OutOfBounds ==
    (call.op = "_get_region"
        \/ (call.op = "get_tile" /\ call.level >= 1
            /\ call.level <= dzi_level_count(dz.sizeX, dz.sizeY))) =>
        LET cl == Max(0, RawLeft)
            ct == Max(0, RawTop)
        IN  /\ result.err = "x is outside layer" <=> cl >= dz.sizeX
            /\ result.err = "y is outside layer"
                   <=> (cl < dz.sizeX /\ ct >= dz.sizeY)
            /\ (cl < dz.sizeX /\ ct < dz.sizeY) => result.err = "none"
            /\ (cl < dz.sizeX /\ ct < dz.sizeY /\ RawRight > dz.sizeX)
                   => result.right = dz.sizeX

\* a tile that starts exactly on the bottom edge is refused with the y error
C9_Witness ==
    /\ call.op = "_get_region"
    /\ result.err = "y is outside layer"
    /\ RawTop = dz.sizeY
    /\ RawLeft > 0

\* C10: get_tile accepts a level exactly when 1 <= level <= maxLevel with
\* maxLevel = ceil(log2(max(native_width, native_height))) (level <= maxLevel
\* iff 2^(level-1) < max(width, height)), whatever tile_size and overlap
\* are; any other level fails with the invalid-level error, whatever the
\* address, and the tile route answers 404.
C10_LevelValidation ==
    LET valid == /\ call.level >= 1
                 /\ Pow2(call.level - 1) < Max(dz.sizeX, dz.sizeY)
        levelError == "level must be between 1 and the image scale"
    IN  /\ call.op = "get_tile" => (result.err = levelError <=> ~valid)
        /\ (call.op = "tile" /\ Lower(call.format) = "jpeg")
               => (result.err = levelError <=> ~valid)
        /\ (call.op = "tile" /\ ~valid) => http = 404

\* the tile route refuses level maxLevel + 1 of an address inside the image
C10_Witness ==
    /\ call.op = "tile" /\ call.format = "jpeg"
    /\ call.level = dzi_level_count(dz.sizeX, dz.sizeY) + 1
    /\ call.x = 0 /\ call.y = 0
    /\ result.err = "level must be between 1 and the image scale"
    /\ http = 404


\* ------------------------------------------------------------------------
\* Claims about the cache alone (checked under SpecCache)
\* ------------------------------------------------------------------------
\* C1: under any interleaving of get calls (hits, misses, failed opens, on
\* any paths) the cache never holds more than cache_size entries.
C1_CacheBounded == Len(cache) <= cache_size

\* the cache is full, one call still holds a slide it inserted that has
\* been evicted since, and a pending call is about to insert one more
C1_Witness ==
    /\ Len(cache) = cache_size
    /\ \E t \in Threads :
           /\ th[t].pc = "got" /\ th[t].outcome = "inserted"
           /\ ~HasKey(cache, th[t].key)
    /\ \E t \in Threads : th[t].pc = "in2" /\ ~HasKey(cache, th[t].key)

\* every thread has returned from a get of the same path, each after a
\* miss, and exactly one of them inserted
RaceOver ==
    /\ \A t \in Threads : th[t].pc = "got" /\ th[t].key = th[1].key
    /\ \A t \in Threads : th[t].outcome \in {"inserted", "discarded"}
    /\ Cardinality({t \in Threads : th[t].outcome = "inserted"}) = 1

\* C2: after N >= 2 concurrent get calls on the same uncached path have all
\* returned, the cache holds one entry for the path and every caller was
\* handed the handle stored in the cache.
C2_SameHandle ==
    RaceOver =>
        /\ Len(SelectSeq(cache, LAMBDA e : e.key = th[1].key)) = 1
        /\ \A t \in Threads :
               th[t].ret = cache[Lookup(cache, th[1].key)].h

\* the keys a step removes from the cache
Removed == Keys(cache) \ Keys(cache)'
\* the keys a step adds to the cache
Added == Keys(cache)' \ Keys(cache)

\* C3: a get miss that inserts into a cache holding cache_size entries
\* removes exactly one entry, the one whose last access through get
\* (insertion or hit) is the oldest of all entries; nothing else removes an
\* entry.
C3_EvictsLeastRecentlyUsed ==
    [][cache' # cache =>
          /\ (Added # {} /\ Len(cache) = cache_size)
               => Removed = {Head(recency)}
          /\ Removed # {}
               => /\ Removed = {Head(recency)}
                  /\ Len(cache) = cache_size
                  /\ \E t \in Threads :
                         /\ th[t].pc = "in2" /\ th'[t].outcome = "inserted"
                         /\ Added = {th[t].key}]_vars

\* three paths went into a cache of two: the first (handle 1) was hit again
\* and is still cached next to the third (handle 3), while the second
\* (handle 2), still held by the call that inserted it, has been evicted
C3_Witness ==
    /\ cache_size = 2
    /\ Len(cache) = 2
    /\ cache[1].h = 1 /\ cache[2].h = 3
    /\ recency = <<cache[1].key, cache[2].key>>
    /\ \E t \in Threads :
           /\ th[t].pc = "got" /\ th[t].outcome = "inserted" /\ th[t].ret = 2
           /\ ~HasKey(cache, th[t].key)
    /\ \E t \in Threads :
           th[t].pc = "got" /\ th[t].outcome = "inserted" /\ th[t].ret = 3

\* the call thread t is in cannot open its path
FailingCall(t) ==
    /\ th[t].pc # "idle"
    /\ OpenTarget(th[t].key, cwd) \notin ReadableFiles

\* C6: a get whose open fails inserts nothing, removes and reorders
\* nothing and does not leave the lock held: no step of the failing call
\* changes the cache, and once it has raised its path is no key of the
\* cache and the lock is not the caller's.
C6_FailedOpenLeavesCache ==
    [][\A t \in Threads :
          /\ (th'[t] # th[t] /\ cache' # cache) => ~FailingCall(t)
          /\ th'[t].pc = "raised"
                => (lock' # t /\ ~HasKey(cache', th'[t].key))]_vars

\* a get has raised while the cache holds entries and another call is
\* under way
C6_Witness ==
    \E t \in Threads :
        /\ th[t].pc = "raised" /\ th[t].outcome = "failed"
        /\ Len(cache) = 2
        /\ \E u \in Threads : th[u].pc = "lock2"


\* ------------------------------------------------------------------------
\* Claims about the server (checked under Spec)
\* ------------------------------------------------------------------------
\* C4: the size bound is enforced at every insert, those of the viewer
\* route's pseudo-slides included: after any sequence of viewer-page,
\* descriptor and tile requests the cache holds at most cache_size entries.
C4_BoundAtEveryInsert == Len(cache) <= cache_size

\* C5: no two distinct cache entries wrap the same slide file, whatever
\* sequence of descriptor, tile and viewer-page requests was served.
C5_OneHandlePerSlide ==
    \A i, j \in 1..Len(cache) :
        (/\ i # j
         /\ handles[cache[i].h].cls = "dz"
         /\ handles[cache[j].h].cls = "dz")
            => handles[cache[i].h].file # handles[cache[j].h].file

\* ------------------------------------------------------------------------
\* Claims about the Level Selector (checked under SpecLevel)
\* ------------------------------------------------------------------------
\* a best_level_for_downsample call has answered
Selected == call.op = "best_level_for_downsample"
\* the native downsample of the level the call selected
SelectedDownsample == dz.level_downsamples[result.level + 1]
\* the native downsample of the level the previous call selected
BeforeDownsample == dz.level_downsamples[result.before + 1]
\* the native downsamples strictly below the target
StrictlyBelow ==
    {dz.level_downsamples[i] : i \in 1..Len(dz.level_downsamples)}
        \cap 0..(call.downsample - 1)

\* C11: on a list of native downsamples sorted ascending and starting at 1,
\* best_level_for_downsample(f) returns an index of the largest native
\* downsample strictly less than f, index 0 when there is none, and never
\* raises.
C11_LargestStrictlyBelow ==
    Selected =>
        /\ result.err = "none"
        /\ result.level \in 0..(Len(dz.level_downsamples) - 1)
        /\ IF StrictlyBelow = {} THEN result.level = 0
           ELSE /\ SelectedDownsample \in StrictlyBelow
                /\ \A d \in StrictlyBelow : d <= SelectedDownsample

\* three levels 1, 2, 4 and a target of 4: level 1 (downsample 2) is chosen
C11_Witness ==
    /\ Selected
    /\ dz.level_downsamples = <<1, 2, 4>>
    /\ call.downsample = 4
    /\ result.level = 1

\* C12 as stated: for every factor f >= 1 the selected downsample d is at
\* most f and no native downsample d' has d < d' <= f.
C12_Original ==
    (Selected /\ call.downsample >= 1) =>
        /\ SelectedDownsample <= call.downsample
        /\ \A i \in 1..Len(dz.level_downsamples) :
               ~(/\ SelectedDownsample < dz.level_downsamples[i]
                 /\ dz.level_downsamples[i] <= call.downsample)

\* C12: for every factor f >= 1 the selected downsample d is at most f,
\* equals f only for f = 1 (level 0), and no native downsample d' has
\* d < d' < f: a level whose downsample equals the factor is passed over.
C12_BestBelowFactor ==
    (Selected /\ call.downsample >= 1) =>
        /\ SelectedDownsample <= call.downsample
        /\ SelectedDownsample = call.downsample => call.downsample = 1
        /\ \A i \in 1..Len(dz.level_downsamples) :
               ~(/\ SelectedDownsample < dz.level_downsamples[i]
                 /\ dz.level_downsamples[i] < call.downsample)

\* the factor equals the downsample of native level 1 and level 0 is chosen
C12_Witness ==
    /\ Selected
    /\ Len(dz.level_downsamples) >= 2
    /\ dz.level_downsamples[2] = 2
    /\ call.downsample = 2
    /\ result.level = 0

\* C13: for one list and two targets f1 <= f2, the downsample of the level
\* selected for f2 is at least that of the level selected for f1 (checked
\* on every pair of consecutive calls, in either order).
C13_Monotonic ==
    (Selected /\ call.before >= 0) =>
        /\ call.before <= call.downsample
              => BeforeDownsample <= SelectedDownsample
        /\ call.downsample <= call.before
              => SelectedDownsample <= BeforeDownsample

\* a call with a larger target than the one before selected a coarser level
C13_Witness ==
    /\ Selected
    /\ call.before >= 1
    /\ call.before < call.downsample
    /\ BeforeDownsample < SelectedDownsample


\* ------------------------------------------------------------------------
\* Further claims about the server (checked under Spec)
\* ------------------------------------------------------------------------
\* C14: an unknown color mode is refused when the cache is created; no
\* descriptor or tile request ever fails because of the configured color
\* mode, whether or not the slide carries a color profile.
C14_ColorModeNeverFailsRequest ==
    \A t \in Threads :
        (th[t].pc = "done" /\ th[t].route \in {"dzi", "tile"})
            => ~(th[t].resp # 200 /\ th[t].outcome = "Unknown color mode")


\* a request thread has its answer and the path it asked for lies outside
\* the slide root
AnsweredOutsideRoot(t) ==
    /\ th[t].pc = "done"
    /\ IsTraversal(Resolve(slidedir, th[t].upath))

\* C15: a descriptor, tile or viewer request whose path resolves outside
\* the slide root is answered 404, even when the file exists and is
\* readable; no file outside the root is ever opened or cached.
C15_TraversalRefused ==
    /\ \A t \in Threads : AnsweredOutsideRoot(t) => th[t].resp = 404
    /\ \A i \in 1..Len(handles) :
           handles[i] # Freed => ~IsTraversal(handles[i].file)


\* C16: every modification of the cache's entry map or LRU order is made
\* by a thread that holds the cache's lock: no step of a thread changes
\* the map while the lock is free or another thread is inside the locked
\* region of get.
C16_MapChangedUnderLock ==
    [][\A t \in Threads :
          (th'[t] # th[t] /\ cache' # cache) => lock = t]_vars


\* ------------------------------------------------------------------------
\* Further claims about the cache alone (checked under SpecCache)
\* ------------------------------------------------------------------------
\* thread t takes the step of a get that finds its path cached
HitStep(t) ==
    /\ th[t].pc = "in1"
    /\ th'[t].pc # "in1"
    /\ HasKey(cache, th[t].key)

\* the entries of c other than that of key k, in their order
Others(c, k) == SelectSeq(c, LAMBDA e : e.key # k)

\* C17: a get that hits leaves the set of cached paths and every cached
\* handle unchanged and only moves the hit entry to the most recently used
\* position; a path leaves the cache only in the step of a get miss that
\* inserts a new path into a full cache.
C17_HitOnlyReorders ==
    [][/\ \A t \in Threads :
             HitStep(t) =>
                 /\ Len(cache') = Len(cache)
                 /\ cache'[Len(cache')] = cache[Lookup(cache, th[t].key)]
                 /\ Others(cache', th[t].key) = Others(cache, th[t].key)
                 /\ th'[t].ret = cache'[Len(cache')].h
       /\ Keys(cache) \ Keys(cache') # {} =>
             \E t \in Threads :
                 /\ th[t].pc = "in2"
                 /\ th'[t].pc # "in2"
                 /\ ~HasKey(cache, th[t].key)
                 /\ HasKey(cache', th[t].key)
                 /\ Len(cache) = cache_size]_vars

\* a get has hit the older of two cached handles and returned it; the
\* entry is in the most recently used position
C17_Witness ==
    /\ Len(cache) = 2
    /\ cache[1].h = 2 /\ cache[2].h = 1
    /\ \E t \in Threads :
           /\ th[t].pc = "got" /\ th[t].outcome = "hit"
           /\ th[t].key = cache[2].key /\ th[t].ret = 1


\* ------------------------------------------------------------------------
\* Claims about the handles of the server (checked under Spec)
\* ------------------------------------------------------------------------
\* the handles the cache refers to
Cached == {cache[i].h : i \in 1..Len(cache)}

\* C18: the derived fields of a handle (mpp, transform, filename) are
\* written before or when the handle is inserted and never afterwards: no
\* step changes a field of a handle that is in the cache.
C18_FieldsFixedOnceCached ==
    [][\A i \in Cached \cap (1..Len(handles)) \cap (1..Len(handles')) :
          handles'[i] # Freed => handles'[i] = handles[i]]_vars


\* ------------------------------------------------------------------------
\* Termination of get (checked under SpecCacheFair)
\* ------------------------------------------------------------------------
\* thread t is inside a get call that has not returned or raised yet
InGet(t) == th[t].pc \in {"lock1", "in1", "open", "lock2", "in2"}

\* C19: with opens that return or fail and a fair scheduler, every get
\* call eventually returns a handle or raises; the lock is held only
\* inside the two with blocks, so it is released on every path (hit,
\* insert, discard, failed open) and is never held while a slide is opened.
C19_GetTerminates ==
    /\ [](\A t \in Threads :
             /\ lock = t <=> th[t].pc \in {"in1", "in2"}
             /\ th[t].pc = "open" => lock # t)
    /\ \A t \in Threads : InGet(t) ~> th[t].pc \in {"got", "raised"}

\* one thread is opening a slide, outside the lock, while the other holds
\* the lock after a miss of its own
C19_Witness ==
    \E t, u \in Threads :
        /\ th[t].pc = "open"
        /\ th[u].pc = "in2" /\ lock = u


====
